---- MODULE Spec2Model ----
(***************************************************************************)
(* Protocol 77: the card table reducer (deck, hands, betting, dealer       *)
(* auto-play) and the React host that drives it (useReducer + the          *)
(* useEffect that dispatches DEALER_PLAY).                                 *)
(*                                                                         *)
(* Scores are kept in hundredths: round2 leaves every card score and hand  *)
(* total at an exact multiple of 0.01, so a total t of the program is the  *)
(* integer 100*t here and 21.0 / 17.0 are 2100 / 1700.                     *)
(***************************************************************************)
EXTENDS Integers, Sequences, FiniteSets, TLC

(* ---------------------------- bounds ----------------------------------- *)
\* number of card values dealt per suit: the top NumValues of 1..MAX_VALUE
NumValues == 7
\* a seed returned by cryptoSeed32 lies in 1..MaxSeed
MaxSeed == 1
\* START is dispatched only while bankroll is within MaxSwing of 10000
MaxSwing == 0
\* user dispatches waiting for a render
MaxQueue == 2
\* cards in a deck SpecScore deals from
ScoreDeckLen == 5

(* ------------------------ program constants ---------------------------- *)
MAX_VALUE == 11
BUST == 2100
DEALER_STAND_16 == 17 * 100 - 100
DEALER_STAND == 1700
MAX_BET == 50
INITIAL_BANKROLL == 10000
CTA_BET == 10
SAFETY_CAP == 500
DEALER_CAP == 50
LOG_CAP == 200

\* The words crypto.getRandomValues returns to shuffle: two of the 2^32.
\* Swap k of a shuffle of n cards then picks index 7 % (n - k + 1) or
\* 8 % (n - k + 1), which lets a first deal be a dealt bust, a push, a dealer
\* that draws and a dealer that busts.
Rands == {7, 8}

\* the suits in play (the program deals seven; the model deals these)
SUITS == <<"Spade">>

SUIT_RANK(suit) ==
  CASE suit = "Spade" -> 1
    [] suit = "Heart" -> 2
    [] suit = "Diamond" -> 3
    [] suit = "Club" -> 4
    [] suit = "Crown" -> 5
    [] suit = "Key" -> 6
    [] suit = "Star" -> 7

VALUES == [i \in 1..NumValues |-> MAX_VALUE - NumValues + i]

\* the increments BET_ADD is dispatched with (the +50 button; the +10 and
\* +21 buttons differ from it only in the amount)
Incs == {50}

(* --------------------------- sequences --------------------------------- *)
Range(f) == {f[i] : i \in DOMAIN f}

RECURSIVE SumSeq(_)
SumSeq(q) == IF q = <<>> THEN 0 ELSE Head(q) + SumSeq(Tail(q))

(* -------------------------- deck factory ------------------------------- *)
mkCard(suit, v) == [suit |-> suit, value |-> v, rank |-> SUIT_RANK(suit)]

\* c.id, the string `${suit}-${value}`
id(c) == <<c.suit, c.value>>

ids(cards) == {id(cards[i]) : i \in DOMAIN cards}

buildDeck ==
  [k \in 1..(Len(SUITS) * NumValues) |->
     mkCard(SUITS[((k - 1) \div NumValues) + 1], VALUES[((k - 1) % NumValues) + 1])]

DeckSize == Len(buildDeck)

\* one random word per swap of a shuffle of the whole deck
RandSeqs == [1..(DeckSize - 1) -> Rands]

Seeds == 1..MaxSeed

\* Fisher-Yates from the last index down; rs[k] is the word of the k-th swap
RECURSIVE shuffleFrom(_, _, _)
shuffleFrom(a, i, rs) ==
  IF i <= 1 THEN a
  ELSE LET j == (rs[Len(a) - i + 1] % i) + 1
           b == [a EXCEPT ![i] = a[j], ![j] = a[i]]
       IN shuffleFrom(b, i - 1, rs)

shuffle(arr, rs) == shuffleFrom(arr, Len(arr), rs)

(* ----------------------------- scoring --------------------------------- *)
\* cardScore without the suit's rank
cardScore_noRank(c) == 100 * c.value

cardScore(c) == 100 * c.value + c.rank

handTotal(hand) == SumSeq([i \in DOMAIN hand |-> cardScore(hand[i])])

\* clampBet without its upper bound
clampBet_noCap(n) == IF n < 0 THEN 0 ELSE n

clampBet(n) == IF n < 0 THEN 0 ELSE IF n > MAX_BET THEN MAX_BET ELSE n

hasDuplicatesById(cards) ==
  \E i, j \in DOMAIN cards : i < j /\ id(cards[i]) = id(cards[j])

\* withoutIds with the filter left out: the whole canonical deck comes back
withoutIds_keepAll(cards, blocked) == cards

\* buildDeck().filter((c) => !blocked.has(c.id))
withoutIds(cards, blocked) == SelectSeq(cards, LAMBDA c : id(c) \notin blocked)

(* --------------------------- takeUnique -------------------------------- *)
\* The while loop of takeUnique.  blocked is inPlay together with takenIds
\* (the loop adds every taken id to inPlay).  hang is TRUE when the loop
\* can never end: the deck is empty and the regenerated deck is empty too.
\* regen counts the decks the call has regenerated so far (it is returned for
\* the caller to know whether random words were read).  capped is TRUE when
\* the attempt counter has gone over SAFETY_CAP in the call.
RECURSIVE takeLoop(_, _, _, _, _, _, _)
takeLoop(d, taken, n, inPlay, safety, regen, rs) ==
  IF Len(taken) >= n
  THEN [taken |-> taken, rest |-> d, hang |-> FALSE, regen |-> regen,
        capped |-> FALSE]
  ELSE
    LET blocked == inPlay \cup ids(taken)
        fresh == shuffle(withoutIds(buildDeck, blocked), rs)
        over == safety + 1 > SAFETY_CAP
        d1 == IF over THEN fresh ELSE d
        s1 == IF over THEN 0 ELSE safety + 1
        r == IF Len(d1) = 0
             THEN IF Len(fresh) = 0
                  THEN [taken |-> taken, rest |-> d1, hang |-> TRUE,
                        regen |-> regen + 1, capped |-> FALSE]
                  ELSE takeLoop(fresh, taken, n, inPlay, s1, regen + 1, rs)
             ELSE LET c == Head(d1)
                      g == IF over THEN regen + 1 ELSE regen
                  IN IF id(c) \in blocked
                     THEN takeLoop(Tail(d1), taken, n, inPlay, s1, g, rs)
                     ELSE takeLoop(Tail(d1), Append(taken, c), n, inPlay, s1, g, rs)
    IN [r EXCEPT !.capped = @ \/ over]

\* takeUnique trusting the deck it is given
takeUnique_noDupCheck(deck, n, inPlay, rs) ==
  takeLoop(deck, <<>>, n, inPlay, 0, 0, rs)

\* takeUnique going round an exhausted deck without refilling it
takeUnique_noRefill(deck, n, inPlay, rs) ==
  LET dup == hasDuplicatesById(deck)
      d == IF dup THEN shuffle(withoutIds(buildDeck, inPlay), rs) ELSE deck
      g == IF dup THEN 1 ELSE 0
      r == takeLoop(d, <<>>, n, inPlay, 0, g, rs)
  IN [r EXCEPT !.hang = @ \/ r.regen > g]

takeUnique(deck, n, inPlay, rs) ==
  LET dup == hasDuplicatesById(deck)
      d == IF dup THEN shuffle(withoutIds(buildDeck, inPlay), rs) ELSE deck
  IN takeLoop(d, <<>>, n, inPlay, 0, IF dup THEN 1 ELSE 0, rs)

(* ------------------------------ state ---------------------------------- *)
Phases == {"LOBBY", "PLAYER", "DEALER", "DONE"}

MSG_PLACE == "Place a bet to join the table."
MSG_BET_SET == "Bet set. Press START to deal."
MSG_TURN == "Your turn. Draw 2, Draw 1, or Stand."
MSG_DEALT_BUST == "Dealt bust. Only STAND is allowed."

\* initialState with the seed and the shuffle it was built from
initialState(seed, rs) ==
  [seed |-> seed,
   phase |-> "LOBBY",
   deck |-> shuffle(buildDeck, rs),
   playerHand |-> <<>>,
   dealerHand |-> <<>>,
   bankroll |-> INITIAL_BANKROLL,
   bet |-> 0,
   message |-> MSG_PLACE,
   playerInitialBust |-> FALSE,
   log |-> <<>>,
   logOpen |-> FALSE]

inPlayOf(state) == ids(state.playerHand) \cup ids(state.dealerHand)

(* ----------------------------- audit log ------------------------------- *)
snapshotOf(state) ==
  [seed |-> state.seed,
   phase |-> state.phase,
   deck |-> Len(state.deck),
   bankroll |-> state.bankroll,
   bet |-> state.bet,
   playerTotal |-> handTotal(state.playerHand),
   dealerTotal |-> handTotal(state.dealerHand),
   playerHand |-> [i \in DOMAIN state.playerHand |-> id(state.playerHand[i])],
   dealerHand |-> [i \in DOMAIN state.dealerHand |-> id(state.dealerHand[i])]]

\* pushLog keeping the head of a log that has outgrown its capacity
pushLog_keepsOldest(state, kind) ==
  LET entry == [kind |-> kind, snapshot |-> snapshotOf(state)]
      next == Append(state.log, entry)
      capped == IF Len(next) > LOG_CAP
                THEN SubSeq(next, 1, LOG_CAP)
                ELSE next
  IN [state EXCEPT !.log = capped]

\* the entry without its timestamp and its note
pushLog(state, kind) ==
  LET entry == [kind |-> kind, snapshot |-> snapshotOf(state)]
      next == Append(state.log, entry)
      capped == IF Len(next) > LOG_CAP
                THEN SubSeq(next, Len(next) - LOG_CAP + 1, Len(next))
                ELSE next
  IN [state EXCEPT !.log = capped]

(* ---------------------------- normalize -------------------------------- *)
RECURSIVE dedupeFrom(_, _)
dedupeFrom(hand, seen) ==
  IF hand = <<>> THEN <<>>
  ELSE IF id(Head(hand)) \in seen
       THEN dedupeFrom(Tail(hand), seen)
       ELSE <<Head(hand)>> \o dedupeFrom(Tail(hand), seen \cup {id(Head(hand))})

dedupeHand(hand) == dedupeFrom(hand, {})

\* normalize rebuilding the deck whether or not it is sound
normalize_alwaysRebuild(state, rs) ==
  LET p == dedupeHand(state.playerHand)
      d == dedupeHand(state.dealerHand)
      inPlay == ids(p) \cup ids(d)
  IN [state EXCEPT !.playerHand = p, !.dealerHand = d,
                   !.deck = shuffle(withoutIds(buildDeck, inPlay), rs)]

normalize(state, rs) ==
  LET p == dedupeHand(state.playerHand)
      d == dedupeHand(state.dealerHand)
      inPlay == ids(p) \cup ids(d)
      deckOk == /\ ~hasDuplicatesById(state.deck)
                /\ \A i \in DOMAIN state.deck : id(state.deck[i]) \notin inPlay
      deck == IF deckOk THEN state.deck
              ELSE shuffle(withoutIds(buildDeck, inPlay), rs)
  IN [state EXCEPT !.playerHand = p, !.dealerHand = d, !.deck = deck]

(* ------------------------- reducer, by case ---------------------------- *)
\* Every case takes the normalized state.  seed is the value cryptoSeed32
\* returns in the call and rs the random words its shuffles read.

\* RESET_RUN spreading the current state where it spreads initialState
RESET_RUN_spreadState(state, seed, rs) ==
  pushLog([state EXCEPT !.seed = seed,
                        !.deck = shuffle(buildDeck, rs),
                        !.message = MSG_PLACE], "RESET_RUN")

RESET_RUN(state, seed, rs) ==
  pushLog([initialState(seed, rs) EXCEPT !.message = MSG_PLACE], "RESET_RUN")

TOGGLE_LOG(state) == [state EXCEPT !.logOpen = ~state.logOpen]

\* SHUFFLE excluding the player's cards only
SHUFFLE_playerOnly(state, seed, rs) ==
  LET safeDeck == withoutIds(buildDeck, ids(state.playerHand))
  IN pushLog([state EXCEPT
        !.seed = seed,
        !.deck = shuffle(safeDeck, rs),
        !.message = IF state.phase = "PLAYER"
                    THEN IF state.playerInitialBust THEN MSG_DEALT_BUST ELSE MSG_TURN
                    ELSE IF state.phase = "LOBBY" THEN MSG_PLACE
                    ELSE state.message], "SHUFFLE")

SHUFFLE(state, seed, rs) ==
  LET safeDeck == withoutIds(buildDeck, inPlayOf(state))
  IN pushLog([state EXCEPT
        !.seed = seed,
        !.deck = shuffle(safeDeck, rs),
        !.message = IF state.phase = "PLAYER"
                    THEN IF state.playerInitialBust THEN MSG_DEALT_BUST ELSE MSG_TURN
                    ELSE IF state.phase = "LOBBY" THEN MSG_PLACE
                    ELSE state.message], "SHUFFLE")

\* RESET_BET rejecting, with a message and an audit entry, outside LOBBY
RESET_BET_rejecting(state) ==
  IF state.phase # "LOBBY"
  THEN pushLog([state EXCEPT !.message = "Bets are closed."], "RESET_BET_BLOCKED")
  ELSE pushLog([state EXCEPT !.bet = 0, !.message = MSG_PLACE], "RESET_BET")

RESET_BET(state) ==
  IF state.phase # "LOBBY" THEN state
  ELSE pushLog([state EXCEPT !.bet = 0, !.message = MSG_PLACE], "RESET_BET")

\* BET_ADD without its phase guard
BET_ADD_unguarded(state, inc) ==
  LET nextBet == clampBet(state.bet + inc)
  IN pushLog([state EXCEPT
                !.bet = nextBet,
                !.message = IF nextBet > 0 THEN MSG_BET_SET ELSE MSG_PLACE],
             "BET_ADD")

BET_ADD(state, inc) ==
  IF state.phase # "LOBBY" THEN state
  ELSE LET nextBet == clampBet(state.bet + inc)
       IN pushLog([state EXCEPT
                     !.bet = nextBet,
                     !.message = IF nextBet > 0 THEN MSG_BET_SET ELSE MSG_PLACE],
                  "BET_ADD")

BET_PLACE_CTA(state) ==
  IF state.phase # "LOBBY" THEN state
  ELSE LET nextBet == IF state.bet > 0 THEN state.bet ELSE CTA_BET
       IN pushLog([state EXCEPT !.bet = nextBet, !.message = MSG_BET_SET],
                  "BET_PLACE_CTA")

\* START with the dealt bust taken at 22 instead of 21
START_bust22(state, rs) ==
  IF state.phase # "LOBBY" THEN state
  ELSE IF state.bet <= 0
  THEN pushLog([state EXCEPT !.message = "You must place a bet first."], "START_BLOCKED")
  ELSE IF state.bet > state.bankroll
  THEN pushLog([state EXCEPT !.message = "Bet exceeds bankroll."], "START_BLOCKED")
  ELSE
    LET r == takeUnique(state.deck, 4, {}, rs)
    IN IF r.hang THEN state
       ELSE
         LET p == <<r.taken[1], r.taken[3]>>
             d == <<r.taken[2], r.taken[4]>>
             initBust == handTotal(p) > BUST + 100
         IN pushLog([state EXCEPT
                       !.phase = "PLAYER",
                       !.deck = r.rest,
                       !.playerHand = p,
                       !.dealerHand = d,
                       !.playerInitialBust = initBust,
                       !.message = IF initBust THEN MSG_DEALT_BUST ELSE MSG_TURN],
                    "START")

\* START without the check of the bet against the bankroll
START_anyBankroll(state, rs) ==
  IF state.phase # "LOBBY" THEN state
  ELSE IF state.bet <= 0
  THEN pushLog([state EXCEPT !.message = "You must place a bet first."], "START_BLOCKED")
  ELSE
    LET r == takeUnique(state.deck, 4, {}, rs)
    IN IF r.hang THEN state
       ELSE
         LET p == <<r.taken[1], r.taken[3]>>
             d == <<r.taken[2], r.taken[4]>>
             initBust == handTotal(p) > BUST
         IN pushLog([state EXCEPT
                       !.phase = "PLAYER",
                       !.deck = r.rest,
                       !.playerHand = p,
                       !.dealerHand = d,
                       !.playerInitialBust = initBust,
                       !.message = IF initBust THEN MSG_DEALT_BUST ELSE MSG_TURN],
                    "START")

START(state, rs) ==
  IF state.phase # "LOBBY" THEN state
  ELSE IF state.bet <= 0
  THEN pushLog([state EXCEPT !.message = "You must place a bet first."], "START_BLOCKED")
  ELSE IF state.bet > state.bankroll
  THEN pushLog([state EXCEPT !.message = "Bet exceeds bankroll."], "START_BLOCKED")
  ELSE
    LET r == takeUnique(state.deck, 4, {}, rs)
    IN IF r.hang THEN state
       ELSE
         LET p == <<r.taken[1], r.taken[3]>>
             d == <<r.taken[2], r.taken[4]>>
             initBust == handTotal(p) > BUST
         IN pushLog([state EXCEPT
                       !.phase = "PLAYER",
                       !.deck = r.rest,
                       !.playerHand = p,
                       !.dealerHand = d,
                       !.playerInitialBust = initBust,
                       !.message = IF initBust THEN MSG_DEALT_BUST ELSE MSG_TURN],
                    "START")

\* DRAW with the bust by hit left unpaid
DRAW_noCharge(state, n, rs) ==
  IF state.phase # "PLAYER" THEN state
  ELSE IF state.playerInitialBust
  THEN pushLog([state EXCEPT !.message = MSG_DEALT_BUST], "DRAW_BLOCKED")
  ELSE IF handTotal(state.playerHand) > BUST THEN state
  ELSE
    LET r == takeUnique(state.deck, n, inPlayOf(state), rs)
        nextHand == state.playerHand \o r.taken
    IN IF r.hang THEN state
       ELSE IF handTotal(nextHand) > BUST
       THEN pushLog([state EXCEPT
                       !.phase = "DONE",
                       !.deck = r.rest,
                       !.playerHand = nextHand,
                       !.message = "You bust. You lose."],
                    "BUST_BY_HIT")
       ELSE pushLog([state EXCEPT
                       !.deck = r.rest,
                       !.playerHand = nextHand,
                       !.message = MSG_TURN],
                    "DRAW")

DRAW(state, n, rs) ==
  IF state.phase # "PLAYER" THEN state
  ELSE IF state.playerInitialBust
  THEN pushLog([state EXCEPT !.message = MSG_DEALT_BUST], "DRAW_BLOCKED")
  ELSE IF handTotal(state.playerHand) > BUST THEN state
  ELSE
    LET r == takeUnique(state.deck, n, inPlayOf(state), rs)
        nextHand == state.playerHand \o r.taken
    IN IF r.hang THEN state
       ELSE IF handTotal(nextHand) > BUST
       THEN pushLog([state EXCEPT
                       !.phase = "DONE",
                       !.deck = r.rest,
                       !.playerHand = nextHand,
                       !.message = "You bust. You lose.",
                       !.bankroll = state.bankroll - state.bet],
                    "BUST_BY_HIT")
       ELSE pushLog([state EXCEPT
                       !.deck = r.rest,
                       !.playerHand = nextHand,
                       !.message = MSG_TURN],
                    "DRAW")

\* STAND taken to settle the hand at once, with no dealer phase
STAND_toDone(state) ==
  IF state.phase # "PLAYER" THEN state
  ELSE pushLog([state EXCEPT !.phase = "DONE", !.message = "Dealer plays..."], "STAND")

\* STAND logging before it changes the phase: the snapshot is of the state
\* it was given
STAND_logFirst(state) ==
  IF state.phase # "PLAYER" THEN state
  ELSE [pushLog(state, "STAND") EXCEPT !.phase = "DEALER", !.message = "Dealer plays..."]

STAND(state) ==
  IF state.phase # "PLAYER" THEN state
  ELSE pushLog([state EXCEPT !.phase = "DEALER", !.message = "Dealer plays..."], "STAND")

\* The dealer's while loop: one unique card at a time while the total is
\* under DEALER_STAND; draws counts the cards drawn so far, regen the decks
\* regenerated by the takeUnique calls, and capped tells whether one of them
\* went over its SAFETY_CAP.
RECURSIVE dealerLoop(_, _, _, _, _, _, _)
dealerLoop(deck, dh, draws, regen, capped, playerHand, rs) ==
  IF ~(handTotal(dh) < DEALER_STAND)
  THEN [deck |-> deck, dh |-> dh, hang |-> FALSE, regen |-> regen, draws |-> draws,
        capped |-> capped]
  ELSE
    LET r == takeUnique(deck, 1, ids(playerHand) \cup ids(dh), rs)
        g == regen + r.regen
        k == capped \/ r.capped
    IN IF r.hang
       THEN [deck |-> deck, dh |-> dh, hang |-> TRUE, regen |-> g, draws |-> draws,
             capped |-> k]
       ELSE IF draws + 1 > DEALER_CAP
       THEN [deck |-> r.rest, dh |-> Append(dh, r.taken[1]), hang |-> FALSE,
             regen |-> g, draws |-> draws + 1, capped |-> k]
       ELSE dealerLoop(r.rest, Append(dh, r.taken[1]), draws + 1, g, k, playerHand, rs)

\* dealerDraws with its draw counter starting at the cap
dealerDraws_countsFromCap(state, rs) ==
  dealerLoop(state.deck, state.dealerHand, DEALER_CAP, 0, FALSE, state.playerHand, rs)

\* DEALER_PLAY up to the end of the loop: the topped-up, played-out dealer hand
dealerDraws(state, rs) ==
  LET dh0 == state.dealerHand
      top == IF Len(dh0) < 2
             THEN takeUnique(state.deck, 2 - Len(dh0), inPlayOf(state), rs)
             ELSE [taken |-> <<>>, rest |-> state.deck, hang |-> FALSE, regen |-> 0,
                   capped |-> FALSE]
  IN IF top.hang
     THEN [deck |-> state.deck, dh |-> dh0, hang |-> TRUE, regen |-> top.regen,
           draws |-> 0, capped |-> top.capped]
     ELSE dealerLoop(top.rest, dh0 \o top.taken, 0, top.regen, top.capped,
                     state.playerHand, rs)

\* dealerOutcome with a dealt bust settled like any other hand
dealerOutcome_symmetric(state, dt) ==
  LET pt == handTotal(state.playerHand)
  IN IF dt > BUST
     THEN [kind |-> "DEALER_BUST_WIN", delta |-> state.bet, message |-> "Dealer busts. You win."]
     ELSE IF pt > dt
     THEN [kind |-> "WIN", delta |-> state.bet, message |-> "You win."]
     ELSE IF pt < dt
     THEN [kind |-> "LOSS", delta |-> 0 - state.bet, message |-> "You lose."]
     ELSE [kind |-> "PUSH", delta |-> 0, message |-> "Push."]

\* the outcome branches of DEALER_PLAY: the audit kind and the bankroll delta
dealerOutcome(state, dt) ==
  LET pt == handTotal(state.playerHand)
      dealerBust == dt > BUST
  IN IF state.playerInitialBust
     THEN IF dealerBust
          THEN [kind |-> "DEALT_BUST_WIN", delta |-> state.bet, message |-> "Dealer busts. You win."]
          ELSE [kind |-> "DEALT_BUST_LOSS", delta |-> 0 - state.bet,
                message |-> "You were dealt bust. Dealer stands. You lose."]
     ELSE IF dealerBust
     THEN [kind |-> "DEALER_BUST_WIN", delta |-> state.bet, message |-> "Dealer busts. You win."]
     ELSE IF pt > dt
     THEN [kind |-> "WIN", delta |-> state.bet, message |-> "You win."]
     ELSE IF pt < dt
     THEN [kind |-> "LOSS", delta |-> 0 - state.bet, message |-> "You lose."]
     ELSE [kind |-> "PUSH", delta |-> 0, message |-> "Push."]

\* DEALER_PLAY past its phase guard
dealerResolve(state, rs) ==
  LET r == dealerDraws(state, rs)
      o == dealerOutcome(state, handTotal(r.dh))
  IN IF r.hang THEN state
     ELSE pushLog([state EXCEPT
                     !.phase = "DONE",
                     !.deck = r.deck,
                     !.dealerHand = r.dh,
                     !.message = o.message,
                     !.bankroll = state.bankroll + o.delta],
                  o.kind)

\* DEALER_PLAY without its phase guard
DEALER_PLAY_unguarded(state, rs) == dealerResolve(state, rs)

DEALER_PLAY(state, rs) ==
  IF state.phase # "DEALER" THEN state ELSE dealerResolve(state, rs)

\* NEXT_HAND without its phase guard
NEXT_HAND_unguarded(state) ==
  pushLog([state EXCEPT
             !.phase = "LOBBY",
             !.bet = 0,
             !.playerHand = <<>>,
             !.dealerHand = <<>>,
             !.playerInitialBust = FALSE,
             !.message = MSG_PLACE],
          "NEXT_HAND")

\* NEXT_HAND starting the log of the next hand afresh
NEXT_HAND_clearsLog(state) ==
  IF state.phase # "DONE" THEN state
  ELSE pushLog([state EXCEPT
                  !.phase = "LOBBY",
                  !.bet = 0,
                  !.playerHand = <<>>,
                  !.dealerHand = <<>>,
                  !.playerInitialBust = FALSE,
                  !.message = MSG_PLACE,
                  !.log = <<>>],
               "NEXT_HAND")

\* NEXT_HAND carrying the dealt-bust flag of the hand into the lobby
NEXT_HAND_keepsFlag(state) ==
  IF state.phase # "DONE" THEN state
  ELSE pushLog([state EXCEPT
                  !.phase = "LOBBY",
                  !.bet = 0,
                  !.playerHand = <<>>,
                  !.dealerHand = <<>>,
                  !.message = MSG_PLACE],
               "NEXT_HAND")

NEXT_HAND(state) ==
  IF state.phase # "DONE" THEN state
  ELSE pushLog([state EXCEPT
                  !.phase = "LOBBY",
                  !.bet = 0,
                  !.playerHand = <<>>,
                  !.dealerHand = <<>>,
                  !.playerInitialBust = FALSE,
                  !.message = MSG_PLACE],
               "NEXT_HAND")

(* ------------------------------ reducer -------------------------------- *)
ActionTypes ==
  {"RESET_RUN", "SHUFFLE", "TOGGLE_LOG", "RESET_BET", "BET_ADD", "BET_PLACE_CTA",
   "START", "DRAW", "STAND", "DEALER_PLAY", "NEXT_HAND"}

Actions ==
  {[type |-> t] : t \in ActionTypes \ {"BET_ADD", "DRAW"}}
    \cup {[type |-> "BET_ADD", inc |-> i] : i \in Incs}
    \cup {[type |-> "DRAW", n |-> k] : k \in {1, 2}}

reducer(state0, action, seed, rs) ==
  LET state == normalize(state0, rs)
  IN CASE action.type = "RESET_RUN" -> RESET_RUN(state, seed, rs)
       [] action.type = "TOGGLE_LOG" -> TOGGLE_LOG(state)
       [] action.type = "SHUFFLE" -> SHUFFLE(state, seed, rs)
       [] action.type = "RESET_BET" -> RESET_BET(state)
       [] action.type = "BET_ADD" -> BET_ADD(state, action.inc)
       [] action.type = "BET_PLACE_CTA" -> BET_PLACE_CTA(state)
       [] action.type = "START" -> START(state, rs)
       [] action.type = "DRAW" -> DRAW(state, action.n, rs)
       [] action.type = "STAND" -> STAND(state)
       [] action.type = "DEALER_PLAY" -> DEALER_PLAY(state, rs)
       [] action.type = "NEXT_HAND" -> NEXT_HAND(state)
       [] OTHER -> state

\* the call reducer(state0, action) never returns: a takeUnique it makes hangs
hangs(state0, action, rs) ==
  LET state == normalize(state0, rs)
  IN CASE action.type = "START" ->
            /\ state.phase = "LOBBY" /\ state.bet > 0 /\ state.bet <= state.bankroll
            /\ takeUnique(state.deck, 4, {}, rs).hang
       [] action.type = "DRAW" ->
            /\ state.phase = "PLAYER" /\ ~state.playerInitialBust
            /\ ~(handTotal(state.playerHand) > BUST)
            /\ takeUnique(state.deck, action.n, inPlayOf(state), rs).hang
       [] action.type = "DEALER_PLAY" ->
            state.phase = "DEALER" /\ dealerDraws(state, rs).hang
       [] OTHER -> FALSE

\* a takeUnique call of reducer(state0, action) goes over its SAFETY_CAP
capsHit(state0, action, rs) ==
  LET state == normalize(state0, rs)
  IN CASE action.type = "START" ->
            /\ state.phase = "LOBBY" /\ state.bet > 0 /\ state.bet <= state.bankroll
            /\ takeUnique(state.deck, 4, {}, rs).capped
       [] action.type = "DRAW" ->
            /\ state.phase = "PLAYER" /\ ~state.playerInitialBust
            /\ ~(handTotal(state.playerHand) > BUST)
            /\ takeUnique(state.deck, action.n, inPlayOf(state), rs).capped
       [] action.type = "DEALER_PLAY" ->
            state.phase = "DEALER" /\ dealerDraws(state, rs).capped
       [] OTHER -> FALSE

\* the decks reducer(state0, action) regenerates in its takeUnique calls
regens(state0, action, rs) ==
  LET state == normalize(state0, rs)
  IN CASE action.type = "START" ->
            IF state.phase = "LOBBY" /\ state.bet > 0 /\ state.bet <= state.bankroll
            THEN takeUnique(state.deck, 4, {}, rs).regen ELSE 0
       [] action.type = "DRAW" ->
            IF /\ state.phase = "PLAYER" /\ ~state.playerInitialBust
               /\ ~(handTotal(state.playerHand) > BUST)
            THEN takeUnique(state.deck, action.n, inPlayOf(state), rs).regen ELSE 0
       [] action.type = "DEALER_PLAY" ->
            IF state.phase = "DEALER" THEN dealerDraws(state, rs).regen ELSE 0
       [] OTHER -> 0

(* --------------------------- the table --------------------------------- *)
\* state: the State held by useReducer, as last rendered.  queue: the
\* actions dispatched and not yet reduced.  deps: the [state.phase] the
\* DEALER_PLAY effect last ran with.  keys: the canStart, canDraw, canStand
\* and canNextHand the registered keydown handler closes over.  effectDue: a
\* render is committed and its effects have not run yet.
VARIABLES state, queue, deps, keys, effectDue

vars == <<state, queue, deps, keys, effectDue>>
host == <<queue, deps, keys, effectDue>>

NoRand == [k \in 1..(DeckSize - 1) |-> CHOOSE r \in Rands : TRUE]

\* the random words that differ only where a shuffle of at most n cards reads
RandsUpTo(n) == {rs \in RandSeqs : \A k \in DOMAIN rs : k >= n => rs[k] = NoRand[k]}

\* The words a call reducer(state0, action) can tell apart: a shuffle of n
\* cards reads n - 1 words, and the call shuffles only in RESET_RUN, in
\* SHUFFLE, when normalize rebuilds the deck and when takeUnique regenerates
\* it, each time the canonical deck less (at least) the ids in play.  Up to
\* its first shuffle the call does not depend on the words.
RandsFor(state0, action) ==
  LET s == normalize(state0, NoRand)
  IN IF action.type = "RESET_RUN" THEN RandSeqs
     ELSE IF \/ action.type = "SHUFFLE"
             \/ s.deck # state0.deck
             \/ regens(state0, action, NoRand) > 0
     THEN RandsUpTo(DeckSize - Cardinality(inPlayOf(s)))
     ELSE {NoRand}

\* Spec follows the reducer and keeps no audit history: no case reads the log
withoutLog(s) == [s EXCEPT !.log = <<>>]

\* the flags Home computes from the state it renders
canBet(s) == s.phase = "LOBBY"
canStart(s) == s.phase = "LOBBY" /\ s.bet > 0 /\ s.bet <= s.bankroll
canDraw(s) == s.phase = "PLAYER" /\ ~s.playerInitialBust
canStand(s) == s.phase = "PLAYER"
canNextHand(s) == s.phase = "DONE"

keysOf(s) ==
  [canStart |-> canStart(s), canDraw |-> canDraw(s),
   canStand |-> canStand(s), canNextHand |-> canNextHand(s)]

\* Spec: the reducer alone, driven by any action at any time; the host is
\* mounted and idle
Init ==
  /\ \E seed \in Seeds, rs \in RandSeqs : state = initialState(seed, rs)
  /\ queue = <<>>
  /\ deps = state.phase
  /\ keys = keysOf(state)
  /\ effectDue = FALSE

\* the bound on the hands explored: START is dispatched only while the
\* bankroll is within MaxSwing of the initial one
withinSwing(s) ==
  s.bankroll \in (INITIAL_BANKROLL - MaxSwing)..(INITIAL_BANKROLL + MaxSwing)

\* reducer(state, action) returns and the table holds what it returned
Apply(action) ==
  \E seed \in Seeds, rs \in RandsFor(state, action) :
    /\ ~hangs(state, action, rs)
    /\ state' = withoutLog(reducer(state, action, seed, rs))
    /\ UNCHANGED host

DoRESET_RUN == Apply([type |-> "RESET_RUN"])
DoSHUFFLE == Apply([type |-> "SHUFFLE"])
DoRESET_BET == Apply([type |-> "RESET_BET"])
DoBET_ADD == \E inc \in Incs : Apply([type |-> "BET_ADD", inc |-> inc])
DoBET_PLACE_CTA == Apply([type |-> "BET_PLACE_CTA"])
DoSTART ==
  /\ withinSwing(state)
  /\ Apply([type |-> "START"])
DoDRAW == \E n \in {1, 2} : Apply([type |-> "DRAW", n |-> n])
DoSTAND == Apply([type |-> "STAND"])
DoDEALER_PLAY == Apply([type |-> "DEALER_PLAY"])
DoNEXT_HAND == Apply([type |-> "NEXT_HAND"])

Next ==
  \/ DoRESET_RUN
  \/ DoSHUFFLE
  \/ DoRESET_BET
  \/ DoBET_ADD
  \/ DoBET_PLACE_CTA
  \/ DoSTART
  \/ DoDRAW
  \/ DoSTAND
  \/ DoDEALER_PLAY
  \/ DoNEXT_HAND

Spec == Init /\ [][Next]_vars

(* ----------------------------- the host -------------------------------- *)
\* SpecHost: Home.  The user clicks the buttons the last render enabled and
\* presses the keys the registered handler accepts; dispatched actions wait
\* in the queue; a render reduces the whole queue and commits; the effects
\* of a commit run before the next render starts.

\* the actions the rendered buttons dispatch
Buttons(s) ==
  {[type |-> "RESET_RUN"], [type |-> "SHUFFLE"], [type |-> "TOGGLE_LOG"]}
    \cup (IF s.phase = "LOBBY" /\ s.bet = 0 THEN {[type |-> "BET_PLACE_CTA"]} ELSE {})
    \cup (IF canBet(s) /\ ~(s.bet >= MAX_BET)
          THEN {[type |-> "BET_ADD", inc |-> i] : i \in Incs} ELSE {})
    \cup (IF canBet(s) /\ s.bet # 0 THEN {[type |-> "RESET_BET"]} ELSE {})
    \cup (IF canStart(s) THEN {[type |-> "START"]} ELSE {})
    \cup (IF canDraw(s) THEN {[type |-> "DRAW", n |-> k] : k \in {1, 2}} ELSE {})
    \cup (IF canStand(s) THEN {[type |-> "STAND"]} ELSE {})
    \cup (IF canNextHand(s) THEN {[type |-> "NEXT_HAND"]} ELSE {})

\* the actions onKeyDown dispatches, by the flags it closed over
KeyActions(k) ==
  {[type |-> "RESET_RUN"]}
    \cup (IF k.canStart THEN {[type |-> "START"]} ELSE {})
    \cup (IF k.canDraw THEN {[type |-> "DRAW", n |-> n] : n \in {1, 2}} ELSE {})
    \cup (IF k.canStand THEN {[type |-> "STAND"]} ELSE {})
    \cup (IF k.canNextHand THEN {[type |-> "NEXT_HAND"]} ELSE {})

\* the effect left out
dealerEffect_never(phase) == <<>>

\* what the DEALER_PLAY effect dispatches when it runs for a render of phase

dealerEffect(phase) ==
  IF phase = "DEALER" THEN <<[type |-> "DEALER_PLAY"]>> ELSE <<>>

\* the queue reduced in dispatch order
RECURSIVE reduceAll(_, _, _, _)
reduceAll(s, q, seed, rs) ==
  IF q = <<>> THEN s
  ELSE reduceAll(reducer(s, Head(q), seed, rs), Tail(q), seed, rs)

RECURSIVE hangsAny(_, _, _, _)
hangsAny(s, q, seed, rs) ==
  IF q = <<>> THEN FALSE
  ELSE \/ hangs(s, Head(q), rs)
       \/ hangsAny(reducer(s, Head(q), seed, rs), Tail(q), seed, rs)

\* the words the renders of SpecHost read: the same word at every swap
HostRands == {rs \in RandSeqs : \A k \in DOMAIN rs : rs[k] = rs[1]}

InitHost ==
  /\ \E seed \in Seeds, rs \in HostRands : state = initialState(seed, rs)
  /\ queue = <<>>
  /\ deps = "unmounted"
  /\ keys = [canStart |-> FALSE, canDraw |-> FALSE,
             canStand |-> FALSE, canNextHand |-> FALSE]
  /\ effectDue = TRUE

Click ==
  /\ Len(queue) < MaxQueue
  /\ \E a \in Buttons(state) :
       /\ a.type = "START" => withinSwing(state)
       /\ queue' = Append(queue, a)
  /\ UNCHANGED <<state, deps, keys, effectDue>>

KeyDown ==
  /\ Len(queue) < MaxQueue
  /\ \E a \in KeyActions(keys) :
       /\ a.type = "START" => withinSwing(state)
       /\ queue' = Append(queue, a)
  /\ UNCHANGED <<state, deps, keys, effectDue>>

\* Render as the queue and the pending effects show it: whenever actions
\* wait and no effect is due a render is scheduled, and only a render empties
\* the queue
RenderTick ==
  /\ queue # <<>>
  /\ ~effectDue
  /\ queue' = <<>>
  /\ effectDue' = TRUE

Render ==
  /\ queue # <<>>
  /\ ~effectDue
  /\ \E seed \in Seeds, rs \in HostRands :
       /\ ~hangsAny(state, queue, seed, rs)
       /\ state' = withoutLog(reduceAll(state, queue, seed, rs))
  /\ queue' = <<>>
  /\ effectDue' = TRUE
  /\ UNCHANGED <<deps, keys>>

RunEffects ==
  /\ effectDue
  /\ effectDue' = FALSE
  /\ queue' = IF state.phase # deps THEN queue \o dealerEffect(state.phase) ELSE queue
  /\ deps' = state.phase
  /\ keys' = keysOf(state)
  /\ UNCHANGED state

NextHost == Click \/ KeyDown \/ Render \/ RunEffects

\* React runs every scheduled render and every pending effect.  The
\* fairness of Render is stated on RenderTick: a Render step is a RenderTick
\* step, and Render is enabled exactly when RenderTick is, as long as the
\* reducer returns (C4_RendersReturn).
SpecHost ==
  /\ InitHost
  /\ [][NextHost]_vars
  /\ WF_<<queue, effectDue>>(RenderTick)
  /\ WF_vars(RunEffects)

(* --------------------------- the audit trail --------------------------- *)
\* SpecAudit: the reducer alone, as Spec, with the newest audit entry kept
\* and with runs that are down to their last bet.

\* the log cut to its newest entry: the entry the last transition appended
lastEntry(s) ==
  [s EXCEPT !.log = IF s.log = <<>> THEN <<>> ELSE <<s.log[Len(s.log)]>>]

\* the bankrolls SpecAudit starts from: the initial one, and one that
\* covers the CTA bet and no more
Bankrolls == {INITIAL_BANKROLL, CTA_BET}

\* A run whose bankroll came down to b, back in LOBBY after NEXT_HAND with
\* the deck rebuilt by SHUFFLE (no card is in play, so the deck is whole)
lobbyAt(b, seed, rs) ==
  lastEntry(SHUFFLE([initialState(seed, rs) EXCEPT !.bankroll = b], seed, rs))

InitAudit ==
  /\ \E seed \in Seeds, rs \in RandSeqs :
       \/ state = initialState(seed, rs)
       \/ state = lobbyAt(CTA_BET, seed, rs)
  /\ queue = <<>>
  /\ deps = state.phase
  /\ keys = keysOf(state)
  /\ effectDue = FALSE

\* START is dispatched only while the bankroll is within MaxSwing of one
\* SpecAudit starts from, or cannot cover the bet
auditSwing(s) ==
  \/ \E b \in Bankrolls : s.bankroll \in (b - MaxSwing)..(b + MaxSwing)
  \/ s.bet > s.bankroll

\* the words the transitions of SpecAudit read: HostRands where the call
\* shuffles, and no word where it does not
auditRands(state0, action) ==
  IF RandsFor(state0, action) = {NoRand} THEN {NoRand} ELSE HostRands

ApplyAudit(action) ==
  \E seed \in Seeds, rs \in auditRands(state, action) :
    /\ ~hangs(state, action, rs)
    /\ state' = lastEntry(reducer(state, action, seed, rs))
    /\ UNCHANGED host

AuditRESET_RUN == ApplyAudit([type |-> "RESET_RUN"])
AuditTOGGLE_LOG == ApplyAudit([type |-> "TOGGLE_LOG"])
AuditSHUFFLE == ApplyAudit([type |-> "SHUFFLE"])
AuditRESET_BET == ApplyAudit([type |-> "RESET_BET"])
AuditBET_ADD == \E inc \in Incs : ApplyAudit([type |-> "BET_ADD", inc |-> inc])
AuditBET_PLACE_CTA == ApplyAudit([type |-> "BET_PLACE_CTA"])
AuditSTART ==
  /\ auditSwing(state)
  /\ ApplyAudit([type |-> "START"])
AuditDRAW == \E n \in {1, 2} : ApplyAudit([type |-> "DRAW", n |-> n])
AuditSTAND == ApplyAudit([type |-> "STAND"])
AuditDEALER_PLAY == ApplyAudit([type |-> "DEALER_PLAY"])
AuditNEXT_HAND == ApplyAudit([type |-> "NEXT_HAND"])

NextAudit ==
  \/ AuditRESET_RUN
  \/ AuditTOGGLE_LOG
  \/ AuditSHUFFLE
  \/ AuditRESET_BET
  \/ AuditBET_ADD
  \/ AuditBET_PLACE_CTA
  \/ AuditSTART
  \/ AuditDRAW
  \/ AuditSTAND
  \/ AuditDEALER_PLAY
  \/ AuditNEXT_HAND

SpecAudit == InitAudit /\ [][NextAudit]_vars

(* ---------------------------- the full log ----------------------------- *)
\* SpecLog: the reducer alone with the whole log kept, late in a session
\* whose log is one entry short of full.

\* what SHUFFLE drawing the seed j returns for s, its entry alone in the log
shuffledOnce(s, j, rs) ==
  reducer([s EXCEPT !.log = <<>>], [type |-> "SHUFFLE"], j, rs)

\* k SHUFFLE actions in a row, the j-th drawing the seed j.  SHUFFLE reads
\* the hands and the phase of the state it is given and nothing else, so the
\* j-th of them returns what SHUFFLE with seed j returns for s, behind the
\* entries of the j - 1 before it.
shuffled(s, k, rs) ==
  IF k = 0 THEN s
  ELSE [shuffledOnce(s, k, rs) EXCEPT
          !.log = s.log \o [j \in 1..k |-> shuffledOnce(s, j, rs).log[1]]]

\* a hand played without a draw
HandScript ==
  <<[type |-> "BET_PLACE_CTA"], [type |-> "START"], [type |-> "STAND"],
    [type |-> "DEALER_PLAY"]>>

\* The table after LOG_CAP - 1 transitions: reshuffles in the lobby, then
\* the first k steps of HandScript
longSession(seed, rs, k) ==
  reduceAll(shuffled(initialState(seed, rs), LOG_CAP - 1 - k, rs),
            SubSeq(HandScript, 1, k), seed, rs)

InitLog ==
  /\ \E seed \in Seeds, rs \in HostRands, k \in 0..Len(HandScript) :
       state = longSession(seed, rs, k)
  /\ queue = <<>>
  /\ deps = state.phase
  /\ keys = keysOf(state)
  /\ effectDue = FALSE

\* SpecLog follows the session while its log is full or one short of it and
\* still holds the entry of the session's first SHUFFLE (the one with seed 1)
sessionOpen(s) ==
  /\ Len(s.log) >= LOG_CAP - 1
  /\ s.log[1].kind = "SHUFFLE"
  /\ s.log[1].snapshot.seed = 1

ApplyLog(action) ==
  /\ sessionOpen(state)
  /\ \E seed \in Seeds, rs \in auditRands(state, action) :
       /\ ~hangs(state, action, rs)
       /\ state' = reducer(state, action, seed, rs)
       /\ UNCHANGED host

LogRESET_RUN == ApplyLog([type |-> "RESET_RUN"])
LogTOGGLE_LOG == ApplyLog([type |-> "TOGGLE_LOG"])
LogSHUFFLE == ApplyLog([type |-> "SHUFFLE"])
LogRESET_BET == ApplyLog([type |-> "RESET_BET"])
LogBET_ADD == \E inc \in Incs : ApplyLog([type |-> "BET_ADD", inc |-> inc])
LogBET_PLACE_CTA == ApplyLog([type |-> "BET_PLACE_CTA"])
LogSTART == ApplyLog([type |-> "START"])
LogDRAW == \E n \in {1, 2} : ApplyLog([type |-> "DRAW", n |-> n])
LogSTAND == ApplyLog([type |-> "STAND"])
LogDEALER_PLAY == ApplyLog([type |-> "DEALER_PLAY"])
LogNEXT_HAND == ApplyLog([type |-> "NEXT_HAND"])

NextLog ==
  \/ LogRESET_RUN
  \/ LogTOGGLE_LOG
  \/ LogSHUFFLE
  \/ LogRESET_BET
  \/ LogBET_ADD
  \/ LogBET_PLACE_CTA
  \/ LogSTART
  \/ LogDRAW
  \/ LogSTAND
  \/ LogDEALER_PLAY
  \/ LogNEXT_HAND

SpecLog == InitLog /\ [][NextLog]_vars

(* ----------------------- tables gone wrong ----------------------------- *)
\* a hand played with one draw
PlayScript ==
  <<[type |-> "BET_PLACE_CTA"], [type |-> "START"],
    [type |-> "DRAW", n |-> 1], [type |-> "STAND"],
    [type |-> "DEALER_PLAY"]>>

\* the table after the first k steps of PlayScript
tableAt(seed, rs, k) ==
  withoutLog(reduceAll(initialState(seed, rs), SubSeq(PlayScript, 1, k), seed, rs))

\* The faults normalize is written against, each made with one card c:
\* deckDup, c twice in the deck; deckHolds, c in a hand and in the deck;
\* handDup, c twice in the player's hand; handsShare, c in both hands, where
\* the dealer held another card; and the decks takeUnique tops up: deckCut, a
\* deck of one card, and deckEmpty.
Faults ==
  {"none", "deckDup", "deckHolds", "handDup", "handsShare", "deckCut", "deckEmpty"}

faulty(s, fault, c) ==
  CASE fault = "deckDup" /\ id(c) \in ids(s.deck) ->
         [s EXCEPT !.deck = Append(@, c)]
    [] fault = "deckHolds" /\ id(c) \in inPlayOf(s) ->
         [s EXCEPT !.deck = <<c>> \o @]
    [] fault = "handDup" /\ id(c) \in ids(s.playerHand) ->
         [s EXCEPT !.playerHand = Append(@, c)]
    [] fault = "handsShare" /\ id(c) \in ids(s.playerHand) /\ s.dealerHand # <<>> ->
         [s EXCEPT !.dealerHand[Len(s.dealerHand)] = c]
    [] fault = "deckCut" /\ s.deck # <<>> ->
         [s EXCEPT !.deck = <<Head(@)>>]
    [] fault = "deckEmpty" ->
         [s EXCEPT !.deck = <<>>]
    [] OTHER -> s

\* the decks the damaged tables were dealt from: the words of the first two
\* swaps of the shuffle vary
DealRands == RandsUpTo(3)

InitRepair ==
  /\ \E seed \in Seeds, rs \in DealRands, k \in 0..Len(PlayScript) :
       \E fault \in Faults, c \in Range(buildDeck) :
         state = faulty(tableAt(seed, rs, k), fault, c)
  /\ queue = <<>>
  /\ deps = state.phase
  /\ keys = keysOf(state)
  /\ effectDue = FALSE

ApplyRepair(action) ==
  \E seed \in Seeds, rs \in auditRands(state, action) :
    /\ ~hangs(state, action, rs)
    /\ state' = withoutLog(reducer(state, action, seed, rs))
    /\ UNCHANGED host

RepairRESET_RUN == ApplyRepair([type |-> "RESET_RUN"])
RepairTOGGLE_LOG == ApplyRepair([type |-> "TOGGLE_LOG"])
RepairSHUFFLE == ApplyRepair([type |-> "SHUFFLE"])
RepairRESET_BET == ApplyRepair([type |-> "RESET_BET"])
RepairBET_ADD == \E inc \in Incs : ApplyRepair([type |-> "BET_ADD", inc |-> inc])
RepairBET_PLACE_CTA == ApplyRepair([type |-> "BET_PLACE_CTA"])
RepairSTART ==
  /\ withinSwing(state)
  /\ ApplyRepair([type |-> "START"])
RepairDRAW == \E n \in {1, 2} : ApplyRepair([type |-> "DRAW", n |-> n])
RepairSTAND == ApplyRepair([type |-> "STAND"])
RepairDEALER_PLAY == ApplyRepair([type |-> "DEALER_PLAY"])
RepairNEXT_HAND == ApplyRepair([type |-> "NEXT_HAND"])

NextRepair ==
  \/ RepairRESET_RUN
  \/ RepairTOGGLE_LOG
  \/ RepairSHUFFLE
  \/ RepairRESET_BET
  \/ RepairBET_ADD
  \/ RepairBET_PLACE_CTA
  \/ RepairSTART
  \/ RepairDRAW
  \/ RepairSTAND
  \/ RepairDEALER_PLAY
  \/ RepairNEXT_HAND

SpecRepair == InitRepair /\ [][NextRepair]_vars

(* -------------------------- scored tables ------------------------------ *)
\* SpecScore: hands dealt from decks of the program's cards around the bust
\* line: tens, elevens and aces of the lowest and the highest suit.
ScoreCards ==
  {mkCard(suit, v) : suit \in {"Spade", "Star"}, v \in {1, MAX_VALUE - 1, MAX_VALUE}}

ScoreDecks ==
  {d \in [1..ScoreDeckLen -> ScoreCards] :
     \A i, j \in 1..ScoreDeckLen : i # j => d[i] # d[j]}

\* the lobby with the CTA bet placed and the deck d on the table
scoreTable(seed, d) ==
  withoutLog([BET_PLACE_CTA(initialState(seed, NoRand)) EXCEPT !.deck = d])

InitScore ==
  /\ \E seed \in Seeds, d \in ScoreDecks : state = scoreTable(seed, d)
  /\ queue = <<>>
  /\ deps = state.phase
  /\ keys = keysOf(state)
  /\ effectDue = FALSE

ApplyScore(action) ==
  \E seed \in Seeds, rs \in auditRands(state, action) :
    /\ ~hangs(state, action, rs)
    /\ state' = withoutLog(reducer(state, action, seed, rs))
    /\ UNCHANGED host

ScoreBET_PLACE_CTA == ApplyScore([type |-> "BET_PLACE_CTA"])
ScoreSTART ==
  /\ withinSwing(state)
  /\ ApplyScore([type |-> "START"])
ScoreDRAW == \E n \in {1, 2} : ApplyScore([type |-> "DRAW", n |-> n])
ScoreSTAND == ApplyScore([type |-> "STAND"])
ScoreDEALER_PLAY == ApplyScore([type |-> "DEALER_PLAY"])
ScoreNEXT_HAND == ApplyScore([type |-> "NEXT_HAND"])

NextScore ==
  \/ ScoreBET_PLACE_CTA
  \/ ScoreSTART
  \/ ScoreDRAW
  \/ ScoreSTAND
  \/ ScoreDEALER_PLAY
  \/ ScoreNEXT_HAND

SpecScore == InitScore /\ [][NextScore]_vars

(* ----------------------- what the claims speak of ----------------------- *)
\* the state reducer(state, action) returns for the words rs
Ret(action, rs) == reducer(state, action, CHOOSE seed \in Seeds : TRUE, rs)

Returns(action, rs) == ~hangs(state, action, rs)

allIds(s) == ids(s.deck) \cup ids(s.playerHand) \cup ids(s.dealerHand)

cardCount(s) == Len(s.deck) + Len(s.playerHand) + Len(s.dealerHand)

\* s and t hold the same cards, bankroll, bet and phase
sameTable(s, t) ==
  /\ s.playerHand = t.playerHand
  /\ s.dealerHand = t.dealerHand
  /\ s.deck = t.deck
  /\ s.bankroll = t.bankroll
  /\ s.bet = t.bet
  /\ s.phase = t.phase

\* C1: in every reachable state deck, playerHand and dealerHand together
\* hold exactly the canonical card ids, each exactly once (no card is lost
\* when NEXT_HAND clears the hands).
C1_AllCardsOnTable ==
  /\ allIds(state) = ids(buildDeck)
  /\ cardCount(state) = DeckSize

\* C2: in every reachable state no card id is both in the deck and in a
\* hand, and no card id occurs twice within the deck, within a hand or across
\* the two hands.
C2_Disjoint ==
  /\ ids(state.deck) \cap inPlayOf(state) = {}
  /\ ~hasDuplicatesById(state.deck)
  /\ ~hasDuplicatesById(state.playerHand \o state.dealerHand)

\* a hand played out to the dealer's third card beside a player who drew
C2_Witness ==
  /\ state.phase = "DONE"
  /\ Len(state.dealerHand) > 2
  /\ Len(state.playerHand) > 2
  /\ state.deck # <<>>

C4_RendersReturn ==
  \A seed \in Seeds, rs \in HostRands : ~hangsAny(state, queue, seed, rs)

C4_DealerResolved ==
  /\ []C4_RendersReturn
  /\ (state.phase = "DEALER") ~> (state.phase # "DEALER")

\* a hand the effect's DEALER_PLAY settled
C4_Witness ==
  /\ state.phase = "DONE"
  /\ deps = "DEALER"
  /\ Len(state.dealerHand) >= 2
  /\ state.message \in {"Dealer busts. You win.", "You win.", "You lose.", "Push.",
                        "You were dealt bust. Dealer stands. You lose."}

\* C5: DEALER_PLAY applied outside DEALER returns the state it was given,
\* and a transition changes bankroll only when it enters DONE from PLAYER or
\* DEALER or when it is RESET_RUN (which ends the hand); DONE is left only
\* for LOBBY, so within one hand the payout is applied at most once.
C5_DealerPlayIdle ==
  state.phase # "DEALER" =>
    \A rs \in RandSeqs : Ret([type |-> "DEALER_PLAY"], rs) = state

C5_PaidOnEnteringDone ==
  /\ state'.bankroll # state.bankroll =>
       \/ state.phase \in {"PLAYER", "DEALER"} /\ state'.phase = "DONE"
       \/ /\ state'.phase = "LOBBY"
          /\ state'.bankroll = INITIAL_BANKROLL
          /\ state'.bet = 0
          /\ cardCount(state') = DeckSize
  /\ state.phase = "DONE" => state'.phase \in {"DONE", "LOBBY"}

C5_SinglePayout == [](C5_DealerPlayIdle) /\ [][C5_PaidOnEnteringDone]_vars

\* a settled hand: DEALER_PLAY was applied in DEALER and is dispatched again
C5_Witness ==
  /\ state.phase = "DONE"
  /\ state.bankroll # INITIAL_BANKROLL
  /\ Len(state.dealerHand) > 2

\* C6: whenever the first two player cards total more than 21 in a hand
\* under way, playerInitialBust is true; and while playerInitialBust is true
\* every DRAW(1) and DRAW(2) returns the same hands, deck, bankroll, bet and
\* phase.
C6_DealtBustBlocksDraw ==
  /\ (state.phase # "LOBBY" /\ handTotal(SubSeq(state.playerHand, 1, 2)) > BUST)
       => state.playerInitialBust
  /\ state.playerInitialBust =>
       \A n \in {1, 2}, rs \in RandSeqs :
         /\ Returns([type |-> "DRAW", n |-> n], rs)
         /\ sameTable(Ret([type |-> "DRAW", n |-> n], rs), state)

\* the player's turn after a dealt bust
C6_Witness ==
  /\ state.phase = "PLAYER"
  /\ state.playerInitialBust
  /\ handTotal(state.playerHand) > BUST

\* the bankroll delta C7 gives for a dealt bust flag, a bet, and the totals
C7_Delta(dealtBust, bet, pt, dt) ==
  IF dealtBust THEN (IF dt > BUST THEN bet ELSE 0 - bet)
  ELSE IF dt > BUST THEN bet
  ELSE IF pt > dt THEN bet
  ELSE IF pt < dt THEN 0 - bet
  ELSE 0

\* C7: DEALER_PLAY applied in phase DEALER returns phase DONE and changes
\* the bankroll by C7_Delta of the dealt-bust flag, the bet, the player total
\* and the total of the dealer hand it returns.
C7_PayoutPriority ==
  state.phase = "DEALER" =>
    \A rs \in RandSeqs :
      Returns([type |-> "DEALER_PLAY"], rs) =>
        LET t == Ret([type |-> "DEALER_PLAY"], rs)
        IN /\ t.phase = "DONE"
           /\ t.bankroll - state.bankroll =
                C7_Delta(state.playerInitialBust, state.bet,
                         handTotal(state.playerHand), handTotal(t.dealerHand))

\* a dealt bust that lost to a dealer standing below the player's total
C7_Witness ==
  /\ state.phase = "DONE"
  /\ state.playerInitialBust
  /\ state.message = "You were dealt bust. Dealer stands. You lose."
  /\ handTotal(state.dealerHand) < handTotal(state.playerHand)
  /\ state.bankroll = INITIAL_BANKROLL - state.bet

\* C8: DEALER_PLAY applied in phase DEALER returns a dealer hand that
\* extends the one it was given and totals at least 17, and if it drew, the
\* hand without its last card totals less than 17.
C8_DealerStands ==
  state.phase = "DEALER" =>
    \A rs \in RandSeqs :
      Returns([type |-> "DEALER_PLAY"], rs) =>
        LET dh == Ret([type |-> "DEALER_PLAY"], rs).dealerHand
            n0 == Len(state.dealerHand)
        IN /\ Len(dh) >= n0
           /\ SubSeq(dh, 1, n0) = state.dealerHand
           /\ handTotal(dh) >= 1700
           /\ Len(dh) > n0 => handTotal(SubSeq(dh, 1, Len(dh) - 1)) < 1700

\* a dealer who drew to 17 or more and stopped
C8_Witness ==
  /\ state.phase = "DONE"
  /\ Len(state.dealerHand) > 2
  /\ handTotal(state.dealerHand) >= 1700
  /\ handTotal(state.dealerHand) <= BUST

\* the bankroll after START, STAND and DEALER_PLAY, all reading the words rs
C9_Play(s, rs) ==
  LET a == reducer(s, [type |-> "START"], 1, rs)
      b == reducer(a, [type |-> "STAND"], 1, rs)
  IN reducer(b, [type |-> "DEALER_PLAY"], 1, rs).bankroll

\* C9: from a state in which START deals (its deck, bet and bankroll
\* fixed), START, STAND, DEALER_PLAY give the same bankroll delta whatever
\* random words are read, and that delta is +bet, -bet or 0.
C9_OutcomeDeterminism ==
  (state.phase = "LOBBY" /\ state.bet > 0 /\ state.bet <= state.bankroll) =>
    \A rs \in RandSeqs :
      /\ C9_Play(state, rs) = C9_Play(state, NoRand)
      /\ C9_Play(state, rs) - state.bankroll \in {state.bet, 0 - state.bet, 0}

\* C10: bet is within [0, 50] in every reachable state; in LOBBY BET_ADD(inc)
\* returns bet + inc clamped to [0, 50]; outside LOBBY BET_ADD, RESET_BET and
\* BET_PLACE_CTA return the same bet.
C10_BetBounds ==
  /\ state.bet \in 0..MAX_BET
  /\ state.phase = "LOBBY" =>
       \A inc \in Incs :
         LET b == Ret([type |-> "BET_ADD", inc |-> inc], NoRand).bet
         IN /\ b \in 0..MAX_BET
            /\ b = IF state.bet + inc > MAX_BET THEN MAX_BET
                   ELSE IF state.bet + inc < 0 THEN 0 ELSE state.bet + inc
  /\ state.phase # "LOBBY" =>
       /\ \A inc \in Incs : Ret([type |-> "BET_ADD", inc |-> inc], NoRand).bet = state.bet
       /\ Ret([type |-> "RESET_BET"], NoRand).bet = state.bet
       /\ Ret([type |-> "BET_PLACE_CTA"], NoRand).bet = state.bet

\* a bet BET_ADD left at the cap
C10_Witness ==
  /\ state.phase = "LOBBY"
  /\ state.bet = MAX_BET
  /\ state.message = MSG_BET_SET

\* the kind of the newest audit entry, "" for an empty log
lastKind(s) == IF s.log = <<>> THEN "" ELSE s.log[Len(s.log)].kind

\* C11 as claimed: every action applied in phase PLAYER, DEALER or DONE
\* returns the bet it was given.
C11_BetFixedOutsideLobby ==
  state.phase # "LOBBY" =>
    \A a \in Actions : \A rs \in RandsFor(state, a) :
      Returns(a, rs) => Ret(a, rs).bet = state.bet

\* C11 as amended: an action applied in phase PLAYER, DEALER or DONE
\* returns the bet it was given, unless it is RESET_RUN, or NEXT_HAND applied
\* in DONE; these two return bet 0 together with phase LOBBY.
C11_BetFixedInPlay ==
  state.phase # "LOBBY" =>
    \A a \in Actions : \A rs \in RandsFor(state, a) :
      Returns(a, rs) =>
        LET t == Ret(a, rs)
        IN IF a.type = "RESET_RUN" \/ (a.type = "NEXT_HAND" /\ state.phase = "DONE")
           THEN t.bet = 0 /\ t.phase = "LOBBY"
           ELSE t.bet = state.bet

\* the lobby a NEXT_HAND returned to, the bet of the settled hand cleared
C11_Witness ==
  /\ lastKind(state) = "NEXT_HAND"
  /\ state.phase = "LOBBY"
  /\ state.bet = 0
  /\ state.bankroll # INITIAL_BANKROLL

\* cards is a permutation of the canonical deck less the ids in gone
isDeckLess(cards, gone) ==
  /\ ids(cards) = ids(buildDeck) \ gone
  /\ Len(cards) = DeckSize - Cardinality(gone)
  /\ \A i \in DOMAIN cards : cards[i] \in Range(buildDeck)

\* C12: RESET_RUN applied to any reachable state, whatever its phase,
\* returns phase LOBBY, bet 0, empty hands, bankroll 10000, playerInitialBust
\* false and a deck that is a permutation of the whole canonical deck.
C12_ResetRun ==
  \A rs \in RandSeqs :
    LET t == Ret([type |-> "RESET_RUN"], rs)
    IN /\ t.phase = "LOBBY"
       /\ t.bet = 0
       /\ t.playerHand = <<>>
       /\ t.dealerHand = <<>>
       /\ t.bankroll = 10000
       /\ t.playerInitialBust = FALSE
       /\ isDeckLess(t.deck, {})

\* the table a RESET_RUN returned
C12_Witness ==
  /\ lastKind(state) = "RESET_RUN"
  /\ state.phase = "LOBBY"
  /\ state.bankroll = 10000
  /\ Len(state.deck) = DeckSize

\* C13: SHUFFLE applied to any reachable state, whatever its phase,
\* returns a deck that is a permutation of the canonical deck less the ids
\* held in the two hands, and the playerHand, dealerHand, phase, bet, bankroll
\* and playerInitialBust it was given.
C13_ShuffleFrame ==
  \A rs \in RandsFor(state, [type |-> "SHUFFLE"]) :
    LET t == Ret([type |-> "SHUFFLE"], rs)
    IN /\ isDeckLess(t.deck, inPlayOf(state))
       /\ t.playerHand = state.playerHand
       /\ t.dealerHand = state.dealerHand
       /\ t.phase = state.phase
       /\ t.bet = state.bet
       /\ t.bankroll = state.bankroll
       /\ t.playerInitialBust = state.playerInitialBust

\* a hand under way whose deck a SHUFFLE rebuilt around the cards in play
C13_Witness ==
  /\ lastKind(state) = "SHUFFLE"
  /\ state.phase \in {"PLAYER", "DEALER", "DONE"}
  /\ Len(state.playerHand) > 2
  /\ Len(state.deck) = DeckSize - Len(state.playerHand) - Len(state.dealerHand)

\* C14: a START applied in LOBBY with 0 < bet <= bankroll returns the first
\* and third card of the deck as playerHand, the second and fourth as
\* dealerHand, the deck without its first four cards, phase PLAYER, and the
\* bet and bankroll it was given; the four cards are distinct.
C14_StartDeals ==
  (state.phase = "LOBBY" /\ state.bet > 0 /\ state.bet <= state.bankroll) =>
    \A rs \in RandsFor(state, [type |-> "START"]) :
      Returns([type |-> "START"], rs) =>
        LET t == Ret([type |-> "START"], rs)
            d == state.deck
        IN /\ Len(d) >= 4
           /\ t.playerHand = <<d[1], d[3]>>
           /\ t.dealerHand = <<d[2], d[4]>>
           /\ t.deck = SubSeq(d, 5, Len(d))
           /\ Cardinality(ids(SubSeq(d, 1, 4))) = 4
           /\ t.phase = "PLAYER"
           /\ t.bet = state.bet
           /\ t.bankroll = state.bankroll

\* C15: a DRAW(n), n in {1, 2}, applied in phase PLAYER without a dealt
\* bust returns the playerHand it was given followed by n cards that are
\* distinct and in neither hand, and the same dealerHand; if the new player
\* total exceeds 21 the bankroll is down by the bet and the phase is DONE,
\* otherwise the bankroll is the same and the phase is PLAYER.
C15_DrawAppends ==
  (state.phase = "PLAYER" /\ ~state.playerInitialBust) =>
    \A n \in {1, 2} : \A rs \in RandsFor(state, [type |-> "DRAW", n |-> n]) :
      /\ Returns([type |-> "DRAW", n |-> n], rs)
      /\ LET t == Ret([type |-> "DRAW", n |-> n], rs)
             n0 == Len(state.playerHand)
             new == SubSeq(t.playerHand, n0 + 1, Len(t.playerHand))
         IN /\ Len(t.playerHand) = n0 + n
            /\ SubSeq(t.playerHand, 1, n0) = state.playerHand
            /\ Cardinality(ids(new)) = n
            /\ ids(new) \cap inPlayOf(state) = {}
            /\ t.dealerHand = state.dealerHand
            /\ IF handTotal(t.playerHand) > 2100
               THEN t.bankroll = state.bankroll - state.bet /\ t.phase = "DONE"
               ELSE t.bankroll = state.bankroll /\ t.phase = "PLAYER"

\* the player's turn after a DRAW that stayed at 21 or under
C15_Witness ==
  /\ lastKind(state) = "DRAW"
  /\ state.phase = "PLAYER"
  /\ Len(state.playerHand) > 2
  /\ handTotal(state.playerHand) <= 2100

\* the audit kinds of the reducer that end in "_BLOCKED"
BlockedKinds == {"START_BLOCKED", "DRAW_BLOCKED"}

\* t is s but for its message, with one entry of a kind in kinds appended
\* to the log
rejectedAs(s, t, kinds) ==
  /\ [t EXCEPT !.message = s.message, !.log = s.log] = s
  /\ Len(t.log) = Len(s.log) + 1
  /\ SubSeq(t.log, 1, Len(s.log)) = s.log
  /\ t.log[Len(t.log)].kind \in kinds

\* C16: a START applied in LOBBY with bet <= 0 or bet > bankroll, and a
\* DRAW applied in PLAYER after a dealt bust, return the state they were given
\* (phase, deck, hands, bankroll, bet, playerInitialBust and the rest) but for
\* the message, with exactly one audit entry appended whose kind ends in
\* "_BLOCKED".
C16_Rejections ==
  /\ (state.phase = "LOBBY" /\ (state.bet <= 0 \/ state.bet > state.bankroll)) =>
       \A rs \in RandsFor(state, [type |-> "START"]) :
         /\ Returns([type |-> "START"], rs)
         /\ rejectedAs(state, Ret([type |-> "START"], rs), BlockedKinds)
  /\ (state.phase = "PLAYER" /\ state.playerInitialBust) =>
       \A n \in {1, 2} : \A rs \in RandsFor(state, [type |-> "DRAW", n |-> n]) :
         /\ Returns([type |-> "DRAW", n |-> n], rs)
         /\ rejectedAs(state, Ret([type |-> "DRAW", n |-> n], rs), BlockedKinds)

\* a START rejected because the bet exceeds what is left of the bankroll
C16_Witness ==
  /\ lastKind(state) = "START_BLOCKED"
  /\ state.phase = "LOBBY"
  /\ state.bet > state.bankroll
  /\ state.message = "Bet exceeds bankroll."

\* the betting actions
BetActions ==
  {[type |-> "RESET_BET"], [type |-> "BET_PLACE_CTA"]}
    \cup {[type |-> "BET_ADD", inc |-> i] : i \in Incs}

\* the kinds a rejected bet would be tagged with
BetBlockedKinds ==
  BlockedKinds \cup {"BET_BLOCKED", "BET_ADD_BLOCKED", "RESET_BET_BLOCKED",
                     "BET_PLACE_CTA_BLOCKED"}

\* C17 as claimed: BET_ADD, RESET_BET and BET_PLACE_CTA applied in phase
\* PLAYER, DEALER or DONE return the state they were given but for the
\* message, with one audit entry tagged "_BLOCKED" appended.
C17_BetRejectedOutsideLobby ==
  state.phase # "LOBBY" =>
    \A a \in BetActions : rejectedAs(state, Ret(a, NoRand), BetBlockedKinds)

\* C17 as amended: BET_ADD, RESET_BET and BET_PLACE_CTA applied in phase
\* PLAYER, DEALER or DONE return the state they were given, message and log
\* included: no audit entry is appended and none is tagged "_BLOCKED".
C17_BetIgnoredOutsideLobby ==
  state.phase # "LOBBY" =>
    \A a \in BetActions :
      LET t == Ret(a, NoRand)
      IN /\ t.message = state.message
         /\ t.log = state.log
         /\ t = state

\* a hand under way with its START on the log, where bets are dispatched
\* and ignored
C17_Witness ==
  /\ state.phase = "PLAYER"
  /\ lastKind(state) = "START"
  /\ state.bet = CTA_BET
  /\ state.message = MSG_TURN

\* the phase an action type is legal in (RESET_RUN, SHUFFLE and TOGGLE_LOG
\* are legal in every phase)
legalPhase(type) ==
  CASE type \in {"BET_ADD", "RESET_BET", "BET_PLACE_CTA", "START"} -> "LOBBY"
    [] type \in {"DRAW", "STAND"} -> "PLAYER"
    [] type = "DEALER_PLAY" -> "DEALER"
    [] type = "NEXT_HAND" -> "DONE"

PhasedTypes ==
  {"BET_ADD", "RESET_BET", "BET_PLACE_CTA", "START", "DRAW", "STAND",
   "DEALER_PLAY", "NEXT_HAND"}

\* C18: BET_ADD, RESET_BET, BET_PLACE_CTA or START applied outside LOBBY,
\* DRAW or STAND outside PLAYER, DEALER_PLAY outside DEALER and NEXT_HAND
\* outside DONE return the (reachable, hence valid) state they were given:
\* every field, message and log included, is the same.
C18_IllegalPhaseNoOp ==
  \A a \in Actions :
    (a.type \in PhasedTypes /\ state.phase # legalPhase(a.type)) =>
      \A rs \in RandsFor(state, a) :
        /\ Returns(a, rs)
        /\ Ret(a, rs) = state

\* the dealer's turn, the STAND on the log: only DEALER_PLAY is legal
C18_Witness ==
  /\ state.phase = "DEALER"
  /\ lastKind(state) = "STAND"
  /\ state.bet > 0
  /\ Len(state.playerHand) >= 2

\* the successor of a phase in the cycle LOBBY, PLAYER, DEALER, DONE
succPhase(p) ==
  CASE p = "LOBBY" -> "PLAYER"
    [] p = "PLAYER" -> "DEALER"
    [] p = "DEALER" -> "DONE"
    [] p = "DONE" -> "LOBBY"

\* C19 as claimed: every transition leaves the phase as it is or moves it
\* to its successor in the cycle.
C19_PhaseCycle ==
  [][state'.phase \in {state.phase, succPhase(state.phase)}]_vars

\* the kinds DEALER_PLAY logs when it settles a hand
OutcomeKinds ==
  {"DEALT_BUST_WIN", "DEALT_BUST_LOSS", "DEALER_BUST_WIN", "WIN", "LOSS", "PUSH"}

\* the phase changes of the reducer: from, audit kind of the transition, to
PhaseSteps ==
  {<<"LOBBY", "START", "PLAYER">>, <<"PLAYER", "STAND", "DEALER">>,
   <<"DONE", "NEXT_HAND", "LOBBY">>, <<"PLAYER", "BUST_BY_HIT", "DONE">>}
    \cup {<<"DEALER", k, "DONE">> : k \in OutcomeKinds}
    \cup {<<p, "RESET_RUN", "LOBBY">> : p \in Phases \ {"LOBBY"}}

\* C19 as amended: every phase change is a step of the cycle (LOBBY to
\* PLAYER by START, PLAYER to DEALER by STAND, DEALER to DONE by DEALER_PLAY,
\* DONE to LOBBY by NEXT_HAND), or PLAYER to DONE by a DRAW that busts, or
\* any phase to LOBBY by RESET_RUN.
C19_PhaseSteps ==
  [][state'.phase # state.phase =>
       <<state.phase, lastKind(state'), state'.phase>> \in PhaseSteps]_vars

\* a hand a DRAW ended: the bust by hit took PLAYER to DONE past DEALER
C19_Witness ==
  /\ lastKind(state) = "BUST_BY_HIT"
  /\ state.phase = "DONE"
  /\ handTotal(state.playerHand) > 2100
  /\ Len(state.dealerHand) = 2

\* the action is not turned away by its phase guard: it succeeds, is
\* rejected with an entry, or resolves the hand
takesEffect(s, a) == a.type \in PhasedTypes => s.phase = legalPhase(a.type)

\* the snapshot e describes the state t
describes(e, t) ==
  /\ e.snapshot.phase = t.phase
  /\ e.snapshot.deck = Len(t.deck)
  /\ e.snapshot.bankroll = t.bankroll
  /\ e.snapshot.bet = t.bet
  /\ e.snapshot.playerHand = [i \in DOMAIN t.playerHand |-> id(t.playerHand[i])]
  /\ e.snapshot.dealerHand = [i \in DOMAIN t.dealerHand |-> id(t.dealerHand[i])]

\* log is base with one entry at its end (the oldest entry dropped from a
\* full base), and that entry describes t
oneMore(base, t) ==
  /\ t.log # <<>>
  /\ SubSeq(t.log, 1, Len(t.log) - 1) =
       (IF Len(base) < 200 THEN base ELSE Tail(base))
  /\ describes(t.log[Len(t.log)], t)

\* C20 as claimed: every action that takes effect returns the log it was
\* given with exactly one entry appended, whose snapshot describes the state
\* returned.
C20_OneEntryEach ==
  \A a \in Actions :
    takesEffect(state, a) =>
      \A rs \in RandsFor(state, a) :
        Returns(a, rs) => oneMore(state.log, Ret(a, rs))

\* C20 as amended: every action that takes effect, other than TOGGLE_LOG
\* and RESET_RUN, returns the log it was given with exactly one entry
\* appended, whose snapshot describes the state returned; RESET_RUN returns a
\* log of that one entry alone, and TOGGLE_LOG returns the log it was given.
C20_OneEntryAudit ==
  \A a \in Actions :
    takesEffect(state, a) =>
      \A rs \in RandsFor(state, a) :
        Returns(a, rs) =>
          LET t == Ret(a, rs)
          IN CASE a.type = "TOGGLE_LOG" -> t.log = state.log
               [] a.type = "RESET_RUN" -> Len(t.log) = 1 /\ oneMore(<<>>, t)
               [] OTHER -> oneMore(state.log, t)

\* a settled hand whose newest entry shows the hand as DEALER_PLAY left it
C20_Witness ==
  /\ lastKind(state) \in OutcomeKinds
  /\ state.phase = "DONE"
  /\ describes(state.log[Len(state.log)], state)
  /\ Len(state.dealerHand) > 2
  /\ state.bankroll # INITIAL_BANKROLL

(* ------------------------- the audit log ------------------------------- *)
\* the action appends an entry: it takes effect and is neither TOGGLE_LOG,
\* which writes none, nor RESET_RUN, which starts the log afresh
appends(s, a) == takesEffect(s, a) /\ a.type \notin {"TOGGLE_LOG", "RESET_RUN"}

\* C21: the log never holds more than 200 entries, in the state and in the
\* state any action returns; an action that appends to a log of 200 entries
\* returns a log of 200 entries, the 199 newest of the input in their order
\* followed by the new entry, the oldest entry being the only one dropped.
C21_LogCapped ==
  /\ Len(state.log) <= 200
  /\ \A a \in Actions :
       \A rs \in RandsFor(state, a) :
         Returns(a, rs) =>
           LET t == Ret(a, rs)
           IN /\ Len(t.log) <= 200
              /\ (Len(state.log) = 200 /\ appends(state, a)) =>
                   /\ Len(t.log) = 200
                   /\ SubSeq(t.log, 1, 199) = SubSeq(state.log, 2, 200)
                   /\ describes(t.log[200], t)

\* a log of 200 entries that has lost the first SHUFFLE of the session and
\* begins with the second
C21_Witness ==
  /\ Len(state.log) = 200
  /\ state.log[1].kind = "SHUFFLE"
  /\ state.log[1].snapshot.seed = 2
  /\ describes(state.log[200], state)

\* log is base, less the entry its capacity drops from the front, followed by
\* zero or one new entry
appended(base, log) ==
  \/ log = base
  \/ /\ log # <<>>
     /\ SubSeq(log, 1, Len(log) - 1) =
          (IF Len(base) < 200 THEN base ELSE Tail(base))

\* C22 as claimed: for every action, the log of the state returned is the
\* log of the state given, less only the entries the capacity of 200 drops
\* from the front, followed by zero or one new entry.
C22_AppendOnly ==
  \A a \in Actions :
    \A rs \in RandsFor(state, a) :
      Returns(a, rs) => appended(state.log, Ret(a, rs).log)

\* C22 as amended: for every action other than RESET_RUN, the log of the
\* state returned is the log of the state given, less only the entries the
\* capacity of 200 drops from the front, followed by zero or one new entry;
\* RESET_RUN returns a log that holds its own entry and nothing of the log
\* it was given.
C22_AppendOnlyButReset ==
  \A a \in Actions :
    \A rs \in RandsFor(state, a) :
      Returns(a, rs) =>
        LET t == Ret(a, rs)
        IN IF a.type = "RESET_RUN"
           THEN Len(t.log) = 1 /\ t.log[1].kind = "RESET_RUN"
           ELSE appended(state.log, t.log)

\* RESET_RUN has left its entry alone where the session held 199 or more
C22_Witness ==
  /\ Len(state.log) = 1
  /\ lastKind(state) = "RESET_RUN"
  /\ state.phase = "LOBBY"
  /\ state.bankroll = INITIAL_BANKROLL

(* --------------------------- integrity --------------------------------- *)
\* the sets of ids takeUnique is handed as inPlay at the table: none (START),
\* both hands (DRAW, DEALER_PLAY), and each hand alone
InPlays == {{}, inPlayOf(state), ids(state.playerHand), ids(state.dealerHand)}

\* the canonical deck holds n cards outside inPlay
leaves(n, inPlay) == n <= DeckSize - Cardinality(inPlay)

\* the random words a call takeUnique(deck, n, inPlay) can tell apart
takeRands(deck, n, inPlay) ==
  IF takeUnique(deck, n, inPlay, NoRand).regen > 0
  THEN RandsUpTo(DeckSize - Cardinality(inPlay))
  ELSE {NoRand}

\* C23: whatever deck it is given (whole, empty, shorter than n, holding an
\* id twice, holding ids that are in play), takeUnique(deck, n, inPlay)
\* returns, with exactly n cards of pairwise distinct ids, none of them in
\* the inPlay it was passed, and a rest that holds none of the ids returned
\* (n and inPlay as the reducer passes them: n from 1 to 4, and inPlay
\* leaving n cards of the canonical deck out of play).
C23_TakeUnique ==
  \A n \in 1..4 :
    \A inPlay \in InPlays :
      leaves(n, inPlay) =>
        \A rs \in takeRands(state.deck, n, inPlay) :
          LET r == takeUnique(state.deck, n, inPlay, rs)
          IN /\ ~r.hang
             /\ Len(r.taken) = n
             /\ Cardinality(ids(r.taken)) = n
             /\ ids(r.taken) \cap inPlay = {}
             /\ ids(r.rest) \cap ids(r.taken) = {}

\* a deck that holds an id twice and a card of the player's hand besides,
\* from which a card has been taken all the same
C23_Witness ==
  /\ hasDuplicatesById(state.deck)
  /\ state.phase = "PLAYER"
  /\ \E inPlay \in InPlays :
       /\ leaves(2, inPlay)
       /\ Len(takeUnique(state.deck, 2, inPlay, NoRand).taken) = 2

\* C24: every call of takeUnique the reducer makes (4 cards in START, 1 or 2
\* in DRAW, the top-up and the single cards of DEALER_PLAY) ends, whatever
\* the deck holds, so every action returns a state, and the state is one of
\* the game's.
C24_ActionsReturn ==
  \A a \in Actions :
    \A rs \in RandsFor(state, a) :
      /\ Returns(a, rs)
      /\ Ret(a, rs).phase \in Phases
      /\ ~hasDuplicatesById(Ret(a, rs).deck)

\* the player's turn over an empty deck: the next DRAW has to refill it,
\* and does
C24_Witness ==
  /\ state.phase = "PLAYER"
  /\ ~state.playerInitialBust
  /\ state.deck = <<>>
  /\ regens(state, [type |-> "DRAW", n |-> 2], NoRand) > 0
  /\ Len(Ret([type |-> "DRAW", n |-> 2], NoRand).playerHand) = Len(state.playerHand) + 2

\* each id is held once across the deck and the two hands of s
eachIdOnce(s) == cardCount(s) = Cardinality(allIds(s))

\* C25: whatever the state an action is given (an id twice in a hand, an id
\* twice in the deck, a card in the deck and in a hand, the same card in both
\* hands), the state it returns holds each card id at most once across deck,
\* playerHand and dealerHand taken together.
C25_RepairedFirst ==
  \A a \in Actions :
    \A rs \in RandsFor(state, a) :
      Returns(a, rs) => eachIdOnce(Ret(a, rs))

\* no id twice in a hand or in the deck, and no id of the deck in a hand
sound(s) ==
  /\ ~hasDuplicatesById(s.playerHand)
  /\ ~hasDuplicatesById(s.dealerHand)
  /\ ~hasDuplicatesById(s.deck)
  /\ ids(s.deck) \cap inPlayOf(s) = {}

\* the random words a call normalize(s) can tell apart
normRands(s) ==
  IF normalize(s, NoRand).deck # s.deck
  THEN RandsUpTo(DeckSize - Cardinality(inPlayOf(s)))
  ELSE {NoRand}

\* C26: normalize returns a sound state as it is (same deck in the same
\* order, same hands), and normalize of what normalize returned is what
\* normalize returned, for every state and whatever the random words of
\* either call.
C26_NormalizeIdempotent ==
  \A rs \in normRands(state) :
    /\ sound(state) => normalize(state, rs) = state
    /\ \A rs2 \in HostRands \cup {rs} :
         normalize(normalize(state, rs), rs2) = normalize(state, rs)

\* a state normalize has work on: an id twice in the deck or in the player's
\* hand, and a state returned that differs
C26_Witness ==
  /\ hasDuplicatesById(state.deck) \/ hasDuplicatesById(state.playerHand)
  /\ normalize(state, NoRand) # state
  /\ sound(normalize(state, NoRand))

C28_BankrollNonNegative ==
  /\ state.bankroll >= 0
  /\ state.phase \in {"PLAYER", "DEALER"} => state.bet <= state.bankroll
  /\ \A a \in Actions :
       \A rs \in RandsFor(state, a) :
         Returns(a, rs) => Ret(a, rs).bankroll >= 0

\* a hand lost with the whole bankroll staked
C28_Witness ==
  /\ state.bankroll = 0
  /\ state.phase = "DONE"
  /\ state.bet = CTA_BET
  /\ lastKind(state) \in {"LOSS", "DEALT_BUST_LOSS", "BUST_BY_HIT"}

(* ---------------------------- hand shape ------------------------------- *)
\* C29: the hands follow the phase: in LOBBY both hands are empty and
\* playerInitialBust is false; in PLAYER and DEALER the dealer holds exactly
\* 2 cards, the player at least 2, and the bet is from 1 to 50; in DONE the
\* dealer holds at least 2 cards; and playerInitialBust implies a player's
\* hand of exactly 2 cards totalling more than 21.
C29_HandShape ==
  /\ state.phase = "LOBBY" =>
       /\ state.playerHand = <<>>
       /\ state.dealerHand = <<>>
       /\ ~state.playerInitialBust
  /\ state.phase \in {"PLAYER", "DEALER"} =>
       /\ Len(state.dealerHand) = 2
       /\ Len(state.playerHand) >= 2
       /\ state.bet >= 1
       /\ state.bet <= 50
  /\ state.phase = "DONE" => Len(state.dealerHand) >= 2
  /\ state.playerInitialBust =>
       /\ Len(state.playerHand) = 2
       /\ handTotal(state.playerHand) > 2100

\* a dealt bust that the dealer has played out
C29_Witness ==
  /\ state.phase = "DONE"
  /\ state.playerInitialBust
  /\ Len(state.playerHand) = 2
  /\ handTotal(state.playerHand) > 2100
  /\ Len(state.dealerHand) > 2

\* C30: a player who busts by drawing never reaches the dealer: in PLAYER
\* and in DEALER, unless the hand was dealt bust, the player's total is at
\* most 21, so DRAW never finds the total it starts from over 21 and the
\* comparison of DEALER_PLAY never sees a busted player.
C30_NoBustedPlayerInPlay ==
  (state.phase \in {"PLAYER", "DEALER"} /\ ~state.playerInitialBust) =>
    /\ handTotal(state.playerHand) <= 2100
    /\ \A n \in {1, 2} :
         \A rs \in RandsFor(state, [type |-> "DRAW", n |-> n]) :
           LET t == Ret([type |-> "DRAW", n |-> n], rs)
           IN (state.phase = "PLAYER" /\ Returns([type |-> "DRAW", n |-> n], rs)) =>
                /\ Len(t.playerHand) = Len(state.playerHand) + n
                /\ t.phase = "PLAYER" => handTotal(t.playerHand) <= 2100
                /\ t.phase # "PLAYER" =>
                     t.phase = "DONE" /\ handTotal(t.playerHand) > 2100

\* the dealer's turn after the player drew and stood
C30_Witness ==
  /\ state.phase = "DEALER"
  /\ ~state.playerInitialBust
  /\ Len(state.playerHand) > 2
  /\ handTotal(state.playerHand) <= 2100

(* ------------------------------ scores --------------------------------- *)
\* the sum of the card values of a hand
valueSum(hand) == SumSeq([i \in DOMAIN hand |-> hand[i].value])

\* the hand read from its last card to its first
reversed(hand) == [i \in DOMAIN hand |-> hand[Len(hand) + 1 - i]]

\* C31: in hundredths a card scores 100 * value + rank with rank in 1..7 and
\* a hand totals the sum of its cards' scores whatever their order; a hand
\* totals more than 2100 exactly when its values sum to 21 or more, no hand
\* totals exactly 2100, and a hand dealt with values summing to 21 is a
\* dealt bust.
C31_BustAtTwentyOne ==
  /\ \A hand \in {state.playerHand, state.dealerHand} :
       /\ \A i \in DOMAIN hand :
            /\ hand[i].rank \in 1..7
            /\ cardScore(hand[i]) = 100 * hand[i].value + hand[i].rank
       /\ handTotal(hand) = handTotal(reversed(hand))
       /\ handTotal(hand) > 2100 <=> valueSum(hand) >= 21
       /\ handTotal(hand) # 2100
  /\ state.phase \in {"PLAYER", "DEALER"} =>
       (state.playerInitialBust <=> valueSum(state.playerHand) >= 21)

\* a ten and an eleven dealt to the player: 21 in values, and a dealt bust
C31_Witness ==
  /\ state.phase = "PLAYER"
  /\ Len(state.playerHand) = 2
  /\ valueSum(state.playerHand) = 21
  /\ state.playerInitialBust
  /\ handTotal(state.playerHand) \in 2102..2114

====
